---- MODULE Spec2Model ----
(***************************************************************************)
(* Model of CochleaReg.py: the Run handler of CochleaRegWidget, the two    *)
(* registration pipelines of CochleaRegLogic (run, runAcir) and the smoke  *)
(* test of CochleaRegTest.  Python call frames are kept on a stack: a      *)
(* handler that Qt dispatches from inside slicer.app.processEvents() runs  *)
(* on top of the handler that called processEvents().                      *)
(***************************************************************************)
EXTENDS Integers, Sequences, FiniteSets, TLC

VARIABLES stack, fs, vtVars, widget, scene, elxOut, runs

vars == <<stack, fs, vtVars, widget, scene, elxOut, runs>>

---------------------------------------------------------------------------
(* Bounds of the model *)

\* handler invocations (Run clicks and test calls) in one behaviour
MaxRuns == 2
\* lines of the transform parameter file the registration binary writes
MaxLines == 2

---------------------------------------------------------------------------
(* Sample data: the geometry of the two volumes and of a crop *)

FixedVol == [dims |-> <<4, 5, 6>>, org |-> <<-3, -2, 2>>, drs |-> <<-1, -1, 1>>]

MovingVol == [dims |-> <<3, 3, 2>>, org |-> <<1, 0, -1>>, drs |-> <<1, 1, 1>>]

CropDims == <<2, 2, 2>>

CropOrg == <<7, 8, 9>>

IJKPoints == {<<0, 0, 0>>, <<1, 2, 3>>}

ExitCodes == {0, 1}

\* the two output folders, and the folder the users' images are stored in
Folders == {"default", "custom", "orig"}

\* lines of an elastix transform parameter file: "(key v1 v2 v3)"
SizeLine(d) == [key |-> "Size", val |-> d]

OriginLine(o) == [key |-> "Origin", val |-> o]

SpacingLine == [key |-> "Spacing", val |-> <<1, 1, 1>>]

Lines == {SizeLine(CropDims), OriginLine(CropOrg), SpacingLine}

TransformFiles == UNION {[1..n -> Lines] : n \in 1..MaxLines}

\* the transform file of the sample registration
SampleTransform == <<SizeLine(CropDims), OriginLine(CropOrg), SpacingLine>>

---------------------------------------------------------------------------
(* Files *)

\* the content of a transform parameter file: its lines, and whether the
\* transform they describe is the inverse of the registration's
NoTf == [lines |-> <<>>, inv |-> FALSE]

\* a folder is the set of its files; old marks a file of an earlier run
Exists(fsys, folder, name) == \E x \in fsys[folder] : x.name = name

File(fsys, folder, name) == CHOOSE x \in fsys[folder] : x.name = name

\* a file written by the run in progress
WriteFile(fsys, folder, name, tf) ==
    [fsys EXCEPT ![folder] =
        {x \in @ : x.name # name} \cup {[name |-> name, old |-> FALSE, tf |-> tf]}]

\* os.rename(src, dst) inside one folder
RenameFile(fsys, folder, src, dst) ==
    [fsys EXCEPT ![folder] =
        {x \in @ : x.name \notin {src, dst}}
           \cup {[File(fsys, folder, src) EXCEPT !.name = dst]}]

\* every file already on disk when a run starts is a file of an earlier run
MarkOld(fsys) == [d \in Folders |-> {[x EXCEPT !.old = TRUE] : x \in fsys[d]}]

\* a path is <<folder, file name>>; <<>> stands for no path
ExistsAt(fsys, path) == path # <<>> /\ Exists(fsys, path[1], path[2])

\* shutil.copyfile(src, dst) raises when src and dst are the same file or
\* src does not exist
CopyRaises(fsys, src, dst) == src = dst \/ ~ExistsAt(fsys, src)

CopyFile(fsys, src, dst) ==
    WriteFile(fsys, dst[1], dst[2], File(fsys, src[1], src[2]).tf)

\* the names of the files of each folder
FileNamesOf(fsys) == [d \in Folders |-> {x.name : x \in fsys[d]}]

---------------------------------------------------------------------------
(* Scene: the MRML nodes, each with a fresh id *)

Node(id, name, cls, path) == [id |-> id, name |-> name, cls |-> cls, path |-> path]

NodeOf(sc, id) == CHOOSE n \in sc.nodes : n.id = id

InScene(sc, id) == \E n \in sc.nodes : n.id = id

\* slicer.util.loadVolume / loadTransform, then SetName: a new node
AddNode(sc, name, cls, path) ==
    [nodes |-> sc.nodes \cup {Node(sc.next, name, cls, path)}, next |-> sc.next + 1]

\* slicer.mrmlScene.RemoveNode
RemoveNode(sc, id) == [sc EXCEPT !.nodes = {n \in @ : n.id # id}]

\* slicer.util.saveNode(node, path): the node gets a storage node for path
SetNodePath(sc, id, path) ==
    [sc EXCEPT !.nodes = {IF n.id = id THEN [n EXCEPT !.path = path] ELSE n : n \in @}]

\* os.path.splitext(os.path.basename(path))[0] of the image files
BaseName(path) == IF path[2] = "F.nrrd" THEN "F" ELSE "M"

\* <name>.nrrd of a volume node
ImgFile(name) == IF name = "F" THEN "F.nrrd" ELSE "M.nrrd"

\* where the fixed and the moving image are stored
FixedImgPath == <<"orig", "F.nrrd">>

MovingImgPath == <<"orig", "M.nrrd">>

---------------------------------------------------------------------------
(* VisSimCommon helpers *)

DefaultVtVars == [outputPath |-> "default", parsPath |-> "defaultPars"]

\* VisSimCommonLogic.removeOtputsFolderContents: empties vtVars['outputPath']
removeOtputsFolderContents(fsys, vt) == [fsys EXCEPT ![vt.outputPath] = {}]

\* VisSimCommonLogic.ptIJK2RAS / ptRAS2IJK on an axis-aligned volume
ptIJK2RAS(p, vol) == [i \in 1..3 |-> vol.drs[i] * p[i] + vol.org[i]]

ptRAS2IJK(r, vol) == [i \in 1..3 |-> vol.drs[i] * (r[i] - vol.org[i])]

\* np.sum(point)
npSum(p) == p[1] + p[2] + p[3]

---------------------------------------------------------------------------
(* Call frames *)

NewFrame(kind, pc) ==
    [kind |-> kind, pc |-> pc, meth |-> "none", custom |-> FALSE,
     customPar |-> FALSE, elxPars |-> "none",
     fixedNode |-> 0, movingNode |-> 0, pickF |-> 0, pickM |-> 0,
     movingPath |-> <<>>, retNode |-> 0,
     scene0 |-> {}, fs0 |-> [d \in Folders |-> {}],
     fFid |-> <<>>, mFid |-> <<>>, lmNoneAtClick |-> FALSE, lmNone |-> FALSE,
     fixedPoint |-> <<0, 0, 0>>, movingPoint |-> <<0, 0, 0>>,
     cTI |-> -1, cTR |-> -1, exits |-> <<>>, elxIn |-> "none",
     parsLst |-> NoTf, tfxIn |-> NoTf,
     log |-> <<>>, msgs |-> <<>>, ret |-> "none"]

Depth == Len(stack)

Top == stack[Depth]

SetTop(f) == [stack EXCEPT ![Depth] = f]

Pop == SubSeq(stack, 1, Depth - 1)

At(pc) == Depth > 0 /\ Top.pc = pc

---------------------------------------------------------------------------
(* CochleaRegWidget *)

\* variant: the pipeline also re-enters the event loop while it waits for the
\* transform-application binary
InProcessEvents_InRun(f) == f.pc \in {"pe1", "pe2", "transformix"}

\* slicer.app.processEvents() in onApplyBtnClick: the handler is inside the
\* Qt event loop and pending clicks are dispatched on top of it
InProcessEvents(f) == f.pc \in {"pe1", "pe2"}

\* Qt can dispatch a click: the event loop is idle or a handler re-entered it
GuiDispatching == IF Depth = 0 THEN TRUE ELSE InProcessEvents(Top)

Fids == {<<>>} \cup {<<p>> : p \in IJKPoints}

LandmarkMissing(fFid, mFid) == fFid = <<>> \/ mFid = <<>>

\* variant: the no-cropping pipeline only when both landmarks are missing
ApplyChoice_BothMissing(fFid, mFid) ==
    IF fFid = <<>> /\ mFid = <<>> THEN "run" ELSE "runAcir"

\* onApplyBtnClick: the pipeline chosen from the two picked landmarks
ApplyChoice(fFid, mFid) ==
    IF LandmarkMissing(fFid, mFid) THEN "run" ELSE "runAcir"

\* onInputFiducialBtnClick(volumeType): the user places the landmark at IJK p
onInputFiducialBtnClick(volumeType, p) ==
    /\ GuiDispatching
    /\ widget' = IF volumeType = "F"
                 THEN [widget EXCEPT !.fixedFiducialNode = <<ptIJK2RAS(p, FixedVol)>>,
                                     !.fixedPickedOn = widget.fixedSelectorCoBx]
                 ELSE [widget EXCEPT !.movingFiducialNode = <<ptIJK2RAS(p, MovingVol)>>,
                                     !.movingPickedOn = widget.movingSelectorCoBx]
    /\ UNCHANGED <<stack, fs, vtVars, scene, elxOut, runs>>

\* onApplyBtnClick, up to and into its first processEvents()
onApplyBtnClick ==
    /\ GuiDispatching
    /\ runs < MaxRuns
    /\ runs' = runs + 1
    /\ stack' = Append(stack,
         [NewFrame("apply", "pe1") EXCEPT
            !.lmNoneAtClick = LandmarkMissing(widget.fixedFiducialNode,
                                              widget.movingFiducialNode),
            !.msgs = <<"...please wait">>])
    /\ UNCHANGED <<fs, vtVars, widget, scene, elxOut>>

\* the first processEvents() returns; the handler tests the landmarks and
\* calls run or runAcir on the selected volumes
ApplyCallRun ==
    /\ At("pe1")
    /\ stack' = SetTop([Top EXCEPT
         !.pc = "initRun",
         !.meth = ApplyChoice(widget.fixedFiducialNode, widget.movingFiducialNode),
         !.lmNone = LandmarkMissing(widget.fixedFiducialNode,
                                    widget.movingFiducialNode),
         !.fFid = widget.fixedFiducialNode,
         !.mFid = widget.movingFiducialNode,
         !.fixedNode = widget.fixedSelectorCoBx,
         !.movingNode = widget.movingSelectorCoBx,
         !.pickF = widget.fixedPickedOn,
         !.pickM = widget.movingPickedOn,
         !.scene0 = scene.nodes,
         !.fs0 = FileNamesOf(fs)])
    /\ UNCHANGED <<fs, vtVars, widget, scene, elxOut, runs>>

\* run/runAcir returned: fuse the images, restore the button, processEvents();
\* of the finished call the handler holds only the node it returned
ApplyFuse ==
    /\ At("returned")
    /\ Top.kind = "apply"
    /\ stack' = SetTop([NewFrame("apply", "pe2") EXCEPT
         !.meth = Top.meth,
         !.ret = Top.ret,
         !.retNode = Top.retNode,
         !.msgs = Append(Top.msgs, "Run")])
    /\ UNCHANGED <<fs, vtVars, widget, scene, elxOut, runs>>

\* the second processEvents() returns and so does the handler
ApplyReturn ==
    /\ At("pe2")
    /\ stack' = Pop
    /\ UNCHANGED <<fs, vtVars, widget, scene, elxOut, runs>>

---------------------------------------------------------------------------
(* CochleaRegTest *)

\* testSlicerCochleaRegistration, started from the idle application, up to its
\* call of runAcir or run
testSlicerCochleaRegistration(fixedPoint, movingPoint, customisedOutputPath, customisedParPath) ==
    /\ Depth = 0
    /\ runs < MaxRuns
    /\ runs' = runs + 1
    /\ fs' = removeOtputsFolderContents(fs, DefaultVtVars)
    /\ scene' = AddNode(AddNode(scene, "F", "vol", FixedImgPath),
                        "M", "vol", MovingImgPath)
    /\ stack' = Append(stack,
         LET f == [NewFrame("test", "initRun") EXCEPT
                     !.custom = customisedOutputPath,
                     !.customPar = customisedParPath,
                     !.fixedNode = scene.next,
                     !.movingNode = scene.next + 1,
                     !.scene0 = scene'.nodes,
                     !.fs0 = FileNamesOf(fs')]
         IN  IF fixedPoint # <<>> /\ movingPoint # <<>>
             THEN [f EXCEPT
                     !.meth = "runAcir",
                     !.fFid = <<ptIJK2RAS(fixedPoint[1], FixedVol)>>,
                     !.mFid = <<ptIJK2RAS(movingPoint[1], MovingVol)>>]
             ELSE [f EXCEPT !.meth = "run"])
    /\ UNCHANGED <<vtVars, widget, elxOut>>

\* the rest of the test: display in try/except, then the final message
TestFinish ==
    /\ At("returned")
    /\ Top.kind = "test"
    /\ stack' = SetTop([Top EXCEPT
         !.pc = "test_done",
         !.msgs = Append(@, "Test testSlicerCochleaRegistration passed!")])
    /\ UNCHANGED <<fs, vtVars, widget, scene, elxOut, runs>>

TestReturn ==
    /\ At("test_done")
    /\ stack' = Pop
    /\ UNCHANGED <<fs, vtVars, widget, scene, elxOut, runs>>

---------------------------------------------------------------------------
(* CochleaRegLogic *)

Step(f, name) == [f EXCEPT !.log = Append(@, name)]

OutDir == vtVars.outputPath

\* initRun: the output path the run works in
initRunOutputPath(customisedOutputPath) ==
    IF customisedOutputPath THEN "custom" ELSE DefaultVtVars.outputPath

\* variant: the customised parameter folder is ignored
initRunParsPath_Default(customisedParPath) == DefaultVtVars.parsPath

\* initRun: the parameter folder the registration binary is given
initRunParsPath(customisedParPath) ==
    IF customisedParPath THEN "customPars" ELSE DefaultVtVars.parsPath

\* initRun: the backing file of a volume node; a node without a storage node
\* is saved to <name>.nrrd in the output folder first
StoragePath(node, out) ==
    IF node.path = <<>> THEN <<out, ImgFile(node.name)>> ELSE node.path

SaveIfUnsaved(fsys, node, out) ==
    IF node.path = <<>> THEN WriteFile(fsys, out, ImgFile(node.name), NoTf) ELSE fsys

\* initRun: reset the globals, empty the output folder, take the customised
\* paths, save the unsaved volumes, copy the two images into the output
\* folder; a copy that raises ends the handler
initRun ==
    /\ At("initRun")
    /\ LET cleared == removeOtputsFolderContents(MarkOld(fs), DefaultVtVars)
           out == initRunOutputPath(Top.custom)
           fixedVolumeNode == NodeOf(scene, Top.fixedNode)
           movingVolumeNode == NodeOf(scene, Top.movingNode)
           fixedPath == StoragePath(fixedVolumeNode, out)
           movingPath == StoragePath(movingVolumeNode, out)
           saved == SaveIfUnsaved(SaveIfUnsaved(cleared, fixedVolumeNode, out),
                                  movingVolumeNode, out)
           fixedRegTmpPath == <<out, ImgFile(fixedVolumeNode.name)>>
           movingRegTmpPath == <<out, ImgFile(movingVolumeNode.name)>>
           fixedCopied == CopyFile(saved, fixedPath, fixedRegTmpPath)
       IN  /\ vtVars' = [outputPath |-> out, parsPath |-> initRunParsPath(Top.customPar)]
           /\ scene' = SetNodePath(SetNodePath(scene, Top.fixedNode, fixedPath),
                                   Top.movingNode, movingPath)
           /\ IF CopyRaises(saved, fixedPath, fixedRegTmpPath)
              THEN /\ fs' = saved
                   /\ stack' = Pop
              ELSE IF CopyRaises(fixedCopied, movingPath, movingRegTmpPath)
              THEN /\ fs' = fixedCopied
                   /\ stack' = Pop
              ELSE /\ fs' = CopyFile(fixedCopied, movingPath, movingRegTmpPath)
                   /\ stack' = SetTop([Top EXCEPT
                        !.pc = IF Top.meth = "runAcir" THEN "points" ELSE "elastix",
                        !.movingPath = movingPath,
                        !.log = <<"initRun">>])
    /\ UNCHANGED <<widget, elxOut, runs>>

\* variant: the second test looks at the moving landmark
AcirPointsVerdict_MovingTested(fixedPoint, movingPoint) ==
    IF npSum(fixedPoint) = 0 THEN "minus1_fixed"
    ELSE IF npSum(movingPoint) = 0 THEN "minus1_moving"
    ELSE "go"

\* runAcir: the three landmark tests as the code writes them
AcirPointsVerdict(fixedPoint, movingPoint) ==
    IF npSum(fixedPoint) = 0 THEN "minus1_fixed"
    ELSE IF npSum(fixedPoint) = 0 THEN "minus1_moving"
    ELSE IF npSum(fixedPoint) = 0 /\ npSum(movingPoint) = 0 THEN "false"
    ELSE "go"

\* runAcir: landmarks to IJK, the missing-landmark tests, the .fcsv files
AcirPoints ==
    /\ At("points")
    /\ Top.fFid # <<>>
    /\ Top.mFid # <<>>
    /\ LET fixedPoint == ptRAS2IJK(Top.fFid[1], FixedVol)
           movingPoint == ptRAS2IJK(Top.mFid[1], MovingVol)
           v == AcirPointsVerdict(fixedPoint, movingPoint)
           f == [Step(Top, "points") EXCEPT !.fixedPoint = fixedPoint]
           fsF == WriteFile(fs, OutDir, "F_F_Cochlea_Pos.fcsv", NoTf)
           fsM == WriteFile(fsF, OutDir, "M_M_Cochlea_Pos.fcsv", NoTf)
       IN  CASE v = "minus1_fixed" ->
                  /\ fs' = fs
                  /\ stack' = SetTop([f EXCEPT
                       !.pc = "returned", !.ret = "minus1",
                       !.msgs = Append(@, "Error: select cochlea fixed point")])
             [] v = "minus1_moving" ->
                  /\ fs' = fsF
                  /\ stack' = SetTop([f EXCEPT
                       !.movingPoint = movingPoint,
                       !.pc = "returned", !.ret = "minus1",
                       !.msgs = Append(@, "Error: select cochlea moving point")])
             [] v = "false" ->
                  /\ fs' = fsM
                  /\ stack' = SetTop([f EXCEPT
                       !.movingPoint = movingPoint,
                       !.pc = "returned", !.ret = "false",
                       !.msgs = Append(@,
                          "Error: select cochlea points in fixed and moving images")])
             [] v = "go" ->
                  /\ fs' = fsM
                  /\ stack' = SetTop([f EXCEPT
                       !.movingPoint = movingPoint, !.pc = "crop"])
    /\ UNCHANGED <<vtVars, widget, scene, elxOut, runs>>

\* runAcir: crop both volumes around their landmarks and load the crops
AcirCrop ==
    /\ At("crop")
    /\ fs' = WriteFile(WriteFile(fs, OutDir, "F_crop.nrrd", NoTf),
                       OutDir, "M_crop.nrrd", NoTf)
    /\ scene' = AddNode(AddNode(scene, "F_F_Crop", "vol", <<OutDir, "F_crop.nrrd">>),
                        "M_M_Crop", "vol", <<OutDir, "M_crop.nrrd">>)
    /\ stack' = SetTop([Step(Top, "crop") EXCEPT !.pc = "elastix"])
    /\ UNCHANGED <<vtVars, widget, elxOut, runs>>

\* the logs the two binaries leave in the output folder
TmpFiles == {"elastix.log", "transformix.log"}

\* VisSimCommonLogic.runElastix: writes TransformParameters.0.txt and the log
\* into the output folder and returns the exit code of the binary
runElastix(fsys, out) ==
    WriteFile(WriteFile(fsys, out, "elastix.log", NoTf),
              out, "TransformParameters.0.txt", [lines |-> elxOut, inv |-> FALSE])

\* runAcir: register the moving crop to the fixed crop
AcirElastix ==
    /\ At("elastix")
    /\ Top.meth = "runAcir"
    /\ \E c \in ExitCodes :
         stack' = SetTop([Step(Top, "elastix") EXCEPT
            !.pc = "read", !.cTI = c, !.elxIn = "crops",
            !.elxPars = vtVars.parsPath,
            !.exits = Append(@, <<"elastix", c>>)])
    /\ fs' = runElastix(fs, OutDir)
    /\ UNCHANGED <<vtVars, widget, scene, elxOut, runs>>

\* runAcir: copy TransformParameters.0.txt to ...Mod.txt and ...ModInv.txt,
\* read the lines of ...Mod.txt, take the geometry of the fixed volume
AcirRead ==
    /\ At("read")
    /\ LET tp0 == File(fs, OutDir, "TransformParameters.0.txt").tf
           fs1 == WriteFile(WriteFile(fs, OutDir, "TransformParametersMod.txt", tp0),
                            OutDir, "TransformParametersModInv.txt", tp0)
       IN  /\ fs' = fs1
           /\ stack' = SetTop([Step(Top, "read") EXCEPT
                !.pc = "invert",
                !.parsLst = File(fs1, OutDir, "TransformParametersMod.txt").tf])
    /\ UNCHANGED <<vtVars, widget, scene, elxOut, runs>>

\* open(resTransPathMod, "rw"): an interpreter that rejects the mode string
\* raises ValueError after the two copies; the exception ends the handler
AcirOpenRaises ==
    /\ At("read")
    /\ LET tp0 == File(fs, OutDir, "TransformParameters.0.txt").tf
       IN  fs' = WriteFile(WriteFile(fs, OutDir, "TransformParametersMod.txt", tp0),
                           OutDir, "TransformParametersModInv.txt", tp0)
    /\ stack' = Pop
    /\ UNCHANGED <<vtVars, widget, scene, elxOut, runs>>

\* VisSimCommonLogic.runElxInvertTransform(in, out, ...): writes the inverse
\* of the transform in ...Mod.txt to ...ModInv.txt
runElxInvertTransform(fsys, out) ==
    WriteFile(fsys, out, "TransformParametersModInv.txt",
              [File(fsys, out, "TransformParametersMod.txt").tf EXCEPT !.inv = ~@])

\* runAcir: the invert step
AcirInvert ==
    /\ At("invert")
    /\ \E c \in ExitCodes :
         stack' = SetTop([Step(Top, "invert") EXCEPT
            !.pc = "fixup", !.cTR = c, !.exits = Append(@, <<"invert", c>>)])
    /\ fs' = runElxInvertTransform(fs, OutDir)
    /\ UNCHANGED <<vtVars, widget, scene, elxOut, runs>>

\* variant: the origin taken without the direction signs
fixedOrgOf_NoDirs(vol) == vol.org

\* runAcir: fixedOrg = [drs[0]*fOrg[0], drs[4]*fOrg[1], drs[8]*fOrg[2]]
fixedOrgOf(vol) == [i \in 1..3 |-> vol.drs[i] * vol.org[i]]

\* runAcir: fixedSize = fixedVolumeNode.GetImageData().GetDimensions()
fixedSizeOf(vol) == vol.dims

\* runAcir: one pass of the rewriting loop over a line of parsLst
FixLine(l, fixedSize, fixedOrg) ==
    LET l1 == IF l.key = "Size" THEN SizeLine(fixedSize) ELSE l
    IN  IF l1.key = "Origin" THEN OriginLine(fixedOrg) ELSE l1

FixLines(ls, fixedSize, fixedOrg) ==
    [i \in 1..Len(ls) |-> FixLine(ls[i], fixedSize, fixedOrg)]

\* runAcir: open ...ModInv.txt for writing and write the rewritten parsLst
AcirFixup ==
    /\ At("fixup")
    /\ fs' = WriteFile(fs, OutDir, "TransformParametersModInv.txt",
               [Top.parsLst EXCEPT
                  !.lines = FixLines(@, fixedSizeOf(FixedVol), fixedOrgOf(FixedVol))])
    /\ stack' = SetTop([Step(Top, "fixup") EXCEPT !.pc = "transformix"])
    /\ UNCHANGED <<vtVars, widget, scene, elxOut, runs>>

\* VisSimCommonLogic.runTransformix: writes result.nrrd and the deformation
\* field into the output folder and returns the exit code of the binary
runTransformix(fsys, out) ==
    WriteFile(WriteFile(WriteFile(fsys, out, "transformix.log", NoTf),
                        out, "result.nrrd", NoTf),
              out, "deformationField.nrrd", NoTf)

\* runAcir: apply ...ModInv.txt to the copy of the full moving volume
AcirTransformix ==
    /\ At("transformix")
    /\ Top.meth = "runAcir"
    /\ \E c \in ExitCodes :
         stack' = SetTop([Step(Top, "transformix") EXCEPT
            !.pc = "finish", !.cTR = c,
            !.tfxIn = File(fs, OutDir, "TransformParametersModInv.txt").tf,
            !.exits = Append(@, <<"transformix", c>>)])
    /\ fs' = runTransformix(fs, OutDir)
    /\ UNCHANGED <<vtVars, widget, scene, elxOut, runs>>

\* run, runAcir: the message chosen from the two exit codes
RegistrationMessage(cTI, cTR) ==
    IF cTI = 0 /\ cTR = 0
    THEN "No error is reported during registeration ..."
    ELSE "error happened during registration "

\* variant: a failed tool makes the run return the sentinel
ReturnValue_FailOnError(cTI, cTR) ==
    IF cTI = 0 /\ cTR = 0 THEN "registered" ELSE "minus1"

\* run, runAcir: return registeredMovingVolumeNode
ReturnValue(cTI, cTR) == "registered"

\* variant: only the registered image is renamed
RenameResults_OnlyImage(fsys, out) ==
    RenameFile(fsys, out, "result.nrrd", "M_Registered.nrrd")

\* run, runAcir: os.rename of the deformation field and of the result
RenameResults(fsys, out) ==
    RenameFile(RenameFile(fsys, out, "deformationField.nrrd", "M_dFld.nrrd"),
               out, "result.nrrd", "M_Registered.nrrd")

\* variant: the moving image is loaded again beside the node passed in
ReloadMoving_NoRemove(sc, movingVolumeNode, movingPath) ==
    AddNode(sc, BaseName(movingPath), "vol", movingPath)

\* run, runAcir: remove the moving volume node and load the moving image again
ReloadMoving(sc, movingVolumeNode, movingPath) ==
    AddNode(RemoveNode(sc, movingVolumeNode), BaseName(movingPath), "vol", movingPath)

\* VisSimCommonLogic.removeTmpsFiles: removes the logs of the two binaries
removeTmpsFiles(fsys, vt) ==
    [fsys EXCEPT ![vt.outputPath] = {x \in @ : x.name \notin TmpFiles}]

\* run, runAcir: rename the two results, load them, reload the moving volume,
\* print the message, remove the temporary files, return; the selector that
\* showed the removed node shows the reloaded one
Finish ==
    /\ fs' = removeTmpsFiles(RenameResults(fs, OutDir), vtVars)
    /\ LET vtTransformNode == scene.next
           registeredMovingVolumeNode == scene.next + 1
           reloaded == scene.next + 2
           loaded == AddNode(AddNode(scene, "M_Transform", "tfm", <<OutDir, "M_dFld.nrrd">>),
                             "M_Registered", "vol", <<OutDir, "M_Registered.nrrd">>)
       IN  /\ scene' = ReloadMoving(loaded, Top.movingNode, Top.movingPath)
           /\ widget' = IF widget.movingSelectorCoBx = Top.movingNode
                        THEN [widget EXCEPT !.movingSelectorCoBx = reloaded]
                        ELSE widget
           /\ stack' = SetTop([Step(Step(Top, "rename"), "load") EXCEPT
                !.pc = "returned",
                !.msgs = Append(@, RegistrationMessage(Top.cTI, Top.cTR)),
                !.ret = ReturnValue(Top.cTI, Top.cTR),
                !.retNode = registeredMovingVolumeNode])
    /\ UNCHANGED <<vtVars, elxOut, runs>>

\* os.rename on a platform that refuses an existing destination: the
\* deformation field of an earlier run in the same folder makes it raise
FinishRenameRaises ==
    /\ At("finish")
    /\ Exists(fs, OutDir, "M_dFld.nrrd")
    /\ stack' = Pop
    /\ UNCHANGED <<fs, vtVars, widget, scene, elxOut, runs>>

AcirFinish ==
    /\ At("finish")
    /\ Top.meth = "runAcir"
    /\ Finish

\* run: register the copy of the moving volume to the copy of the fixed one
RunElastix ==
    /\ At("elastix")
    /\ Top.meth = "run"
    /\ \E c \in ExitCodes :
         stack' = SetTop([Step(Top, "elastix") EXCEPT
            !.pc = "transformix", !.cTI = c, !.elxIn = "full",
            !.elxPars = vtVars.parsPath,
            !.exits = Append(@, <<"elastix", c>>)])
    /\ fs' = runElastix(fs, OutDir)
    /\ UNCHANGED <<vtVars, widget, scene, elxOut, runs>>

\* run: apply TransformParameters.0.txt to the copy of the moving volume
RunTransformix ==
    /\ At("transformix")
    /\ Top.meth = "run"
    /\ \E c \in ExitCodes :
         stack' = SetTop([Step(Top, "transformix") EXCEPT
            !.pc = "finish", !.cTR = c,
            !.tfxIn = File(fs, OutDir, "TransformParameters.0.txt").tf,
            !.exits = Append(@, <<"transformix", c>>)])
    /\ fs' = runTransformix(fs, OutDir)
    /\ UNCHANGED <<vtVars, widget, scene, elxOut, runs>>

RunFinish ==
    /\ At("finish")
    /\ Top.meth = "run"
    /\ Finish

---------------------------------------------------------------------------
(* Specification *)

\* the two image files the user loaded
OrigFiles ==
    {[name |-> "F.nrrd", old |-> TRUE, tf |-> NoTf],
     [name |-> "M.nrrd", old |-> TRUE, tf |-> NoTf]}

\* the module panel: no landmark picked, the two volumes selected
InitWidget ==
    [fixedFiducialNode |-> <<>>, movingFiducialNode |-> <<>>,
     fixedSelectorCoBx |-> 1, movingSelectorCoBx |-> 2,
     fixedPickedOn |-> 0, movingPickedOn |-> 0]

\* the scene holds the two volumes the user loaded
InitScene(fixedPath, movingPath) ==
    [nodes |-> {Node(1, "F", "vol", fixedPath), Node(2, "M", "vol", movingPath)},
     next |-> 3]

Init ==
    /\ stack = <<>>
    /\ fs = [d \in Folders |-> IF d = "orig" THEN OrigFiles ELSE {}]
    /\ vtVars = DefaultVtVars
    /\ widget = InitWidget
    /\ scene = InitScene(FixedImgPath, MovingImgPath)
    /\ elxOut = SampleTransform
    /\ runs = 0

Next ==
    \/ \E t \in {"F", "M"}, p \in IJKPoints : onInputFiducialBtnClick(t, p)
    \/ onApplyBtnClick
    \/ ApplyCallRun
    \/ ApplyFuse
    \/ ApplyReturn
    \/ \E fp \in Fids, mp \in Fids, c \in BOOLEAN, cp \in BOOLEAN :
          testSlicerCochleaRegistration(fp, mp, c, cp)
    \/ TestFinish
    \/ TestReturn
    \/ initRun
    \/ AcirPoints
    \/ AcirCrop
    \/ AcirElastix
    \/ AcirRead
    \/ AcirOpenRaises
    \/ AcirInvert
    \/ AcirFixup
    \/ AcirTransformix
    \/ AcirFinish
    \/ RunElastix
    \/ RunTransformix
    \/ RunFinish
    \/ FinishRenameRaises

Spec == Init /\ [][Next]_vars

\* The two pipelines driven by the test, over every transform file the
\* registration binary may write within MaxLines lines; the test customises
\* both paths or none
InitTransforms ==
    /\ stack = <<>>
    /\ fs = [d \in Folders |-> IF d = "orig" THEN OrigFiles ELSE {}]
    /\ vtVars = DefaultVtVars
    /\ widget = InitWidget
    /\ scene = InitScene(FixedImgPath, MovingImgPath)
    /\ elxOut \in TransformFiles
    /\ runs = 0

NextPipeline ==
    \/ \E fp \in Fids, mp \in Fids, c \in BOOLEAN :
          testSlicerCochleaRegistration(fp, mp, c, c)
    \/ TestFinish
    \/ TestReturn
    \/ initRun
    \/ AcirPoints
    \/ AcirCrop
    \/ AcirElastix
    \/ AcirRead
    \/ AcirOpenRaises
    \/ AcirInvert
    \/ AcirFixup
    \/ AcirTransformix
    \/ AcirFinish
    \/ RunElastix
    \/ RunTransformix
    \/ RunFinish
    \/ FinishRenameRaises

SpecTransforms == InitTransforms /\ [][NextPipeline]_vars

\* The whole module on volumes that may never have been saved: each of the
\* two volumes of the selectors has a storage node or has none
InitUnsaved ==
    /\ stack = <<>>
    /\ fs = [d \in Folders |-> IF d = "orig" THEN OrigFiles ELSE {}]
    /\ vtVars = DefaultVtVars
    /\ widget = InitWidget
    /\ \E fixedPath \in {FixedImgPath, <<>>}, movingPath \in {MovingImgPath, <<>>} :
          scene = InitScene(fixedPath, movingPath)
    /\ elxOut = SampleTransform
    /\ runs = 0

SpecUnsaved == InitUnsaved /\ [][Next]_vars

---------------------------------------------------------------------------
(* Properties *)

Frames == {stack[i] : i \in 1..Depth}

IsPrefix(s, t) == Len(s) <= Len(t) /\ SubSeq(t, 1, Len(s)) = s

\* the run of frame f has returned to its caller
Returned(f) == f.pc \in {"returned", "test_done"}

\* the run of frame f is between its call and its return
InRun(f) ==
    f.pc \in {"initRun", "points", "crop", "elastix", "read", "invert", "fixup",
              "transformix", "finish"}

Completed(f) == Returned(f) /\ f.ret = "registered"

IsPipelineStep(x) ==
    x \in {"crop", "elastix", "fixup", "invert", "transformix", "load"}

NoErrorMsg == "No error is reported during registeration ..."

ErrorMsg == "error happened during registration "

Msgs(f) == {f.msgs[i] : i \in DOMAIN f.msgs}

Steps(f) == {f.log[i] : i \in DOMAIN f.log}

\* C1: in every completed runAcir call the steps crop, register, fix up the
\* transform (rewrite Size/Origin), invert, apply, load happen in this order,
\* each once; in particular the fix-up precedes the invert step.
C1_FixupBeforeInvert ==
    \A f \in Frames :
       (f.meth = "runAcir" /\ Completed(f)) =>
          SelectSeq(f.log, IsPipelineStep)
             = <<"crop", "elastix", "fixup", "invert", "transformix", "load">>

\* C2: the transform file runAcir hands to the transform-application binary
\* is the inverted transform (what the invert step wrote), with Size and
\* Origin rewritten.
C2_TransformixGetsInverse ==
    \A f \in Frames :
       (f.meth = "runAcir" /\ "transformix" \in Steps(f)) =>
          /\ f.tfxIn.inv
          /\ f.tfxIn.lines
               = FixLines(elxOut, fixedSizeOf(FixedVol), fixedOrgOf(FixedVol))

\* C3: when the registration binary is invoked, the output folder of the run
\* holds no file of an earlier run (the folder was cleared when the run began),
\* with or without a customised output path.
C3_OutputFolderCleared ==
    At("elastix") =>
       \A x \in fs[OutDir] : ~x.old

\* C4: when the fixed or the moving landmark of runAcir is missing (its IJK
\* point sums to zero), runAcir prints an error and returns a sentinel without
\* cropping and without invoking any external binary.
C4_MissingLandmarkShortCircuits ==
    \A f \in Frames :
       (/\ f.meth = "runAcir"
        /\ "points" \in Steps(f)
        /\ \/ npSum(ptRAS2IJK(f.fFid[1], FixedVol)) = 0
           \/ npSum(ptRAS2IJK(f.mFid[1], MovingVol)) = 0) =>
          /\ Returned(f)
          /\ f.ret \in {"minus1", "false"}
          /\ \E m \in Msgs(f) : m \notin {"...please wait", "Run", NoErrorMsg, ErrorMsg}
          /\ "crop" \notin Steps(f)
          /\ f.exits = <<>>

\* C5 as stated: a Run click made while a landmark is unpicked never leads
\* to an invocation of the registration binary.
C5_NoLandmarkNoRegistration ==
    \A f \in Frames :
       (f.kind = "apply" /\ f.lmNoneAtClick) => f.elxIn = "none"

\* C5 amended: when the Run handler finds the fixed or the moving landmark
\* unpicked (None) at its test, it calls run, not runAcir: nothing is cropped,
\* and the registration binary is invoked on the copies of the full volumes.
C5_NoLandmarkRunsWithoutCropping ==
    \A f \in Frames :
       (f.kind = "apply" /\ f.lmNone) =>
          /\ f.meth = "run"
          /\ "crop" \notin Steps(f)
          /\ f.elxIn \in {"none", "full"}
          /\ Returned(f) => (f.elxIn = "full" /\ f.ret = "registered")

C5_Witness ==
    \E f \in Frames :
       /\ f.kind = "apply"
       /\ f.lmNone
       /\ f.fFid # <<>>
       /\ f.pc = "returned"
       /\ f.elxIn = "full"

FullLog(meth) ==
    IF meth = "runAcir"
    THEN <<"initRun", "points", "crop", "elastix", "read", "invert", "fixup",
           "transformix", "rename", "load">>
    ELSE <<"initRun", "elastix", "transformix", "rename", "load">>

C7_EveryExitCodeChecked ==
    \A f \in Frames :
       (f.meth = "runAcir" /\ NoErrorMsg \in Msgs(f)) =>
          \A i \in DOMAIN f.exits : f.exits[i][2] = 0

\* C8: at most one registration run is in progress at any time: of the
\* handlers on the stack, re-entered through processEvents or not, at most one
\* is between initRun and its return, and it is the one on top.
C8_RunsNeverOverlap ==
    /\ Cardinality({i \in 1..Depth : InRun(stack[i])}) <= 1
    /\ \A i \in 1..Depth : InRun(stack[i]) => i = Depth

C8_Witness ==
    /\ Depth = 2
    /\ stack[1].pc = "pe1"
    /\ stack[2].kind = "apply"
    /\ stack[2].pc = "transformix"

\* C9: the test prints its final 'passed' message only if the call of
\* run/runAcir it made returned a registered volume node.
C9_PassedOnlyAfterCompletedRun ==
    \A f \in Frames :
       (f.kind = "test" /\ f.pc = "test_done") => f.ret = "registered"

AfterFixup == Depth > 0 /\ Top.pc \in {"transformix", "finish", "returned"}
                        /\ Top.meth = "runAcir" /\ Top.ret # "minus1"

\* C10: the file finally written to TransformParametersModInv.txt has the
\* lines of the transform file it was derived from, in number and order; a
\* line that is neither a Size nor an Origin line is unchanged, a Size line
\* carries the dimensions of the full fixed volume, an Origin line the origin
\* of the full fixed volume times the diagonal direction entries; and
\* TransformParameters.0.txt is as the registration binary wrote it.
C10_FixupRewritesOnlyGeometry ==
    AfterFixup =>
       LET src == Top.parsLst.lines
           out == File(fs, OutDir, "TransformParametersModInv.txt").tf.lines
       IN  /\ src = elxOut
           /\ File(fs, OutDir, "TransformParameters.0.txt").tf.lines = elxOut
           /\ Len(out) = Len(src)
           /\ \A i \in DOMAIN src :
                /\ src[i].key \notin {"Size", "Origin"} => out[i] = src[i]
                /\ src[i].key = "Size" =>
                     (out[i].key = "Size" /\ out[i].val = FixedVol.dims
                                          /\ out[i].val # CropDims)
                /\ src[i].key = "Origin" =>
                     /\ out[i].key = "Origin"
                     /\ \A j \in 1..3 :
                          out[i].val[j] = FixedVol.drs[j] * FixedVol.org[j]

C10_Witness ==
    /\ AfterFixup
    /\ Top.pc = "transformix"
    /\ Top.parsLst.lines = <<OriginLine(CropOrg), SizeLine(CropDims)>>
    /\ File(fs, OutDir, "TransformParametersModInv.txt").tf.lines
         = <<OriginLine(<<3, 2, 2>>), SizeLine(<<4, 5, 6>>)>>

\* C11: after every completed run or runAcir call for the moving volume M the
\* output folder holds M_Registered.nrrd and M_dFld.nrrd, both written by this
\* call, and neither result.nrrd nor deformationField.nrrd; the scene holds a
\* transform node M_Transform loaded from the renamed deformation field, and
\* the returned node is the volume M_Registered loaded from M_Registered.nrrd.
C11_ResultsRenamedAndLoaded ==
    \A f \in Frames :
       Completed(f) =>
          /\ Exists(fs, OutDir, "M_Registered.nrrd")
          /\ ~File(fs, OutDir, "M_Registered.nrrd").old
          /\ Exists(fs, OutDir, "M_dFld.nrrd")
          /\ ~File(fs, OutDir, "M_dFld.nrrd").old
          /\ ~Exists(fs, OutDir, "result.nrrd")
          /\ ~Exists(fs, OutDir, "deformationField.nrrd")
          /\ \E n \in scene.nodes :
                /\ n.name = "M_Transform"
                /\ n.cls = "tfm"
                /\ n.path = <<OutDir, "M_dFld.nrrd">>
          /\ InScene(scene, f.retNode)
          /\ NodeOf(scene, f.retNode)
                = Node(f.retNode, "M_Registered", "vol", <<OutDir, "M_Registered.nrrd">>)

\* a second completed call in the same customised folder: the results of the
\* first call were there when it renamed its own
C11_Witness ==
    /\ At("returned")
    /\ Top.ret = "registered"
    /\ Top.custom
    /\ Cardinality({n \in scene.nodes : n.path = <<"custom", "M_Registered.nrrd">>}) = 2

\* the node with this id as it was when the call of frame f began
NodeAtCall(f, id) == CHOOSE n \in f.scene0 : n.id = id

C13_CustomisedPathsUsed ==
    \A f \in Frames :
       f.log # <<>> =>
          LET out == IF f.custom THEN "custom" ELSE DefaultVtVars.outputPath
              pars == IF f.customPar THEN "customPars" ELSE DefaultVtVars.parsPath
          IN  /\ vtVars = [outputPath |-> out, parsPath |-> pars]
              /\ f.elxIn # "none" => f.elxPars = pars
              /\ \A d \in Folders \ {out} : \A x \in fs[d] : x.old
              /\ \A n \in scene.nodes \ f.scene0 :
                    n.path[1] \in {out, "orig"}
              /\ Completed(f) =>
                    {"F.nrrd", "M.nrrd", "TransformParameters.0.txt",
                     "M_dFld.nrrd", "M_Registered.nrrd"}
                       \subseteq {x.name : x \in {y \in fs[out] : ~y.old}}

\* only the parameter folder is customised, after an earlier call that
\* customised the output folder
C13_Witness ==
    /\ At("returned")
    /\ Top.ret = "registered"
    /\ ~Top.custom
    /\ Top.customPar
    /\ Top.elxPars = "customPars"
    /\ fs["custom"] # {}

\* C14: initRun handles volumes that were never saved: whatever the two volume
\* nodes, with or without a storage node, the step initRun takes ends inside
\* the run (no exception), both nodes are then backed by an existing file, and
\* the output folder holds <fixedName>.nrrd and <movingName>.nrrd.
C14_InitRunHandlesUnsavedVolumes ==
    [][At("initRun") =>
          /\ Len(stack') = Len(stack)
          /\ stack'[Len(stack')].pc \in {"points", "elastix"}
          /\ ExistsAt(fs', NodeOf(scene', Top.fixedNode).path)
          /\ ExistsAt(fs', NodeOf(scene', Top.movingNode).path)
          /\ Exists(fs', vtVars'.outputPath, "F.nrrd")
          /\ Exists(fs', vtVars'.outputPath, "M.nrrd")]_vars

\* the call of frame f returned early, with a sentinel
ShortCircuited(f) == Returned(f) /\ f.ret \in {"minus1", "false"}

\* C15 as stated: when runAcir returns early because a landmark is missing,
\* the files of the output folders and the nodes of the scene are those of
\* before the call.
C15_ShortCircuitLeavesStateUnchanged ==
    \A f \in Frames :
       ShortCircuited(f) =>
          /\ FileNamesOf(fs) = f.fs0
          /\ scene.nodes = f.scene0

\* C15 amended: when runAcir returns early because a landmark is missing,
\* the nodes of the scene are those of before the call and initRun has run:
\* the default output folder holds nothing of before the call, the folder of
\* the run holds the copies of the two images, written by this call, and no
\* other file was written.
C15_ShortCircuitAfterInitRun ==
    \A f \in Frames :
       ShortCircuited(f) =>
          /\ scene.nodes = f.scene0
          /\ \A x \in fs[DefaultVtVars.outputPath] : ~x.old
          /\ {x.name : x \in {y \in fs[OutDir] : ~y.old}} = {"F.nrrd", "M.nrrd"}
          /\ \A d \in Folders \ {OutDir} : \A x \in fs[d] : x.old
          /\ FileNamesOf(fs)["orig"] = f.fs0["orig"]
          /\ f.custom =>
                FileNamesOf(fs)["custom"] = f.fs0["custom"] \cup {"F.nrrd", "M.nrrd"}

\* a Run click with the fixed landmark at the IJK origin, the default output
\* folder holding the results of an earlier run
C15_Witness ==
    /\ At("returned")
    /\ Top.kind = "apply"
    /\ Top.ret = "minus1"
    /\ "M_Registered.nrrd" \in Top.fs0["default"]
    /\ ~Exists(fs, "default", "M_Registered.nrrd")

\* C16: whenever the Run handler calls runAcir, the fixed landmark it passes
\* was picked on the volume node it passes as fixed and the moving landmark on
\* the volume node it passes as moving (the nodes the two selectors show at
\* the call).
C16_LandmarksPickedOnSelectedVolumes ==
    \A f \in Frames :
       (f.kind = "apply" /\ f.meth = "runAcir" /\ f.pc # "pe2") =>
          /\ f.pickF = f.fixedNode
          /\ f.pickM = f.movingNode

====
